---- MODULE Spec2Model ----
(***************************************************************************)
(* Model of the proxy-string parser of webui/app.js (smartParseProxy).     *)
(* Strings are sequences of one-character strings.  The regular            *)
(* expression of smartParseProxy is modelled with the backtracking         *)
(* semantics of String.prototype.match: leftmost start, alternatives in    *)
(* order, optional groups tried before being skipped, greedy quantifiers   *)
(* tried longest first.                                                     *)
(***************************************************************************)
EXTENDS Integers, Sequences, FiniteSets, TLC

VARIABLES input, text, result, pc, form, state, view, pending, write, check,
          table, menu

vars ==
  <<input, text, result, pc, form, state, view, pending, write, check,
    table, menu>>

(***************************************************************************)
(* Characters and character classes                                         *)
(***************************************************************************)
LowerLetters ==
  <<"a","b","c","d","e","f","g","h","i","j","k","l","m",
    "n","o","p","q","r","s","t","u","v","w","x","y","z">>

UpperLetters ==
  <<"A","B","C","D","E","F","G","H","I","J","K","L","M",
    "N","O","P","Q","R","S","T","U","V","W","X","Y","Z">>

Digits == <<"0","1","2","3","4","5","6","7","8","9">>

Range(s) == {s[i] : i \in 1..Len(s)}

LowerSet == Range(LowerLetters)

UpperSet == Range(UpperLetters)

DigitSet == Range(Digits)

\* \s of the regular expression and the characters String.prototype.trim strips
WhiteSpace == {" ", "\t", "\n", "\r", "\f"}

LowerOf ==
  [c \in UpperSet |->
     LowerLetters[CHOOSE i \in 1..Len(UpperLetters) : UpperLetters[i] = c]]

UpperOf ==
  [c \in LowerSet |->
     UpperLetters[CHOOSE i \in 1..Len(LowerLetters) : LowerLetters[i] = c]]

\* String.prototype.toLowerCase, one character
ToLowerChar(c) == IF c \in UpperSet THEN LowerOf[c] ELSE c

\* String.prototype.toUpperCase, one character
ToUpperChar(c) == IF c \in LowerSet THEN UpperOf[c] ELSE c

\* the scheme token kept in the case it was written in
keepCase(s) == s

\* rawType.toLowerCase()
toLowerCase(s) == [i \in 1..Len(s) |-> ToLowerChar(s[i])]

\* the characters [^:@\s] excludes
PrefixCredExcluded == {":", "@"} \cup WhiteSpace

\* [a-zA-Z0-9.-]
HostCharSet == LowerSet \cup UpperSet \cup DigitSet \cup {".", "-"}

\* the characters [^:\s] excludes
SuffixCredExcluded == {":"} \cup WhiteSpace

(***************************************************************************)
(* String helpers                                                           *)
(***************************************************************************)
Max(S) == CHOOSE m \in S : \A k \in S : k <= m

Min(S) == CHOOSE m \in S : \A k \in S : m <= k

\* the position of the first character from i on that satisfies bad, or Len+1
FirstAt(t, i, bad) == Min({j \in i..Len(t) : t[j] \in bad} \cup {Len(t) + 1})

\* the position of the first character from i on that is outside good
FirstNotIn(t, i, good) ==
  Min({j \in i..Len(t) : t[j] \notin good} \cup {Len(t) + 1})

\* text.trim()
trim(s) ==
  SubSeq(s, FirstNotIn(s, 1, WhiteSpace),
            Max({i \in 1..Len(s) : s[i] \notin WhiteSpace} \cup {0}))

\* s.includes(sub)
includes(s, sub) ==
  \E i \in 1..(Len(s) + 1) :
     /\ i + Len(sub) - 1 <= Len(s)
     /\ SubSeq(s, i, i + Len(sub) - 1) = sub

\* value of a capture group that did not take part in the match
undefined == <<"undefined">>

\* the value null passed as an argument
nullArg == <<"null">>

\* a value that is a string (typeof v === "string")
IsString(v) == v \notin {undefined, nullArg}

\* a || b on strings, null and undefined: null, undefined and "" are falsy
Or(a, b) == IF a = undefined \/ a = nullArg \/ a = <<>> THEN b ELSE a

(***************************************************************************)
(* The regular expression of smartParseProxy.  A match is a record          *)
(* [index, last, groups]: the matched text is t[index..last], groups[k] is  *)
(* match[k].  Every Match* operator yields << m >> for the first match the  *)
(* backtracking search finds from its position, or Fail.                    *)
(***************************************************************************)
Fail == <<>>

\* (http|https|socks4|socks5|socks5h), in the order the alternatives are tried
SchemeAlternatives ==
  << <<"h","t","t","p">>,
     <<"h","t","t","p","s">>,
     <<"s","o","c","k","s","4">>,
     <<"s","o","c","k","s","5">>,
     <<"s","o","c","k","s","5","h">> >>

\* the literal lit is at position i of t (flag i: letters compared caseless)
LiteralAt(t, i, lit) ==
  /\ i + Len(lit) - 1 <= Len(t)
  /\ \A j \in 1..Len(lit) : ToLowerChar(t[i + j - 1]) = ToLowerChar(lit[j])

\* lengths of the longest runs of each class starting at position i
SuffixCredRun(t, i) == FirstAt(t, i, SuffixCredExcluded) - i

PrefixCredRun(t, i) == FirstAt(t, i, PrefixCredExcluded) - i

\* [a-zA-Z0-9.]+ : the class without the hyphen
HostRunNoHyphen(t, i) == FirstNotIn(t, i, HostCharSet \ {"-"}) - i

HostRun(t, i) == FirstNotIn(t, i, HostCharSet) - i

DigitRun(t, i) == FirstNotIn(t, i, DigitSet) - i

SpaceRun(t, i) == FirstNotIn(t, i, WhiteSpace) - i

\* backtracking: the first way of matching if it succeeds, else the next one
OrElse(first, next) == IF first # Fail THEN first ELSE next

\* a completed match
Matched(s, last, g) == << [index |-> s, last |-> last, groups |-> g] >>

\* the second ([^:\s]+) of the suffix group, of length pl, then the end of the
\* pattern
SuffixPassOfLen(t, s, i, g, ul, pl) ==
  IF pl < 1 THEN Fail
  ELSE Matched(s, i + 1 + ul + pl,
               << g[1], g[2], g[3], g[4], g[5],
                  SubSeq(t, i + 1, i + ul),
                  SubSeq(t, i + 2 + ul, i + 1 + ul + pl) >>)

\* the second ([^:\s]+) of the suffix group: nothing follows it, so the
\* longest run is the first success
SuffixPass(t, s, i, g, ul) ==
  SuffixPassOfLen(t, s, i, g, ul, SuffixCredRun(t, i + 2 + ul))

\* the first ([^:\s]+) of the suffix group, of length ul, ul-1, .., 1, then ":"
RECURSIVE SuffixUser(_, _, _, _, _)
SuffixUser(t, s, i, g, ul) ==
  IF ul < 1 THEN Fail
  ELSE OrElse(IF LiteralAt(t, i + 1 + ul, <<":">>)
                THEN SuffixPass(t, s, i, g, ul) ELSE Fail,
              SuffixUser(t, s, i, g, ul - 1))

\* (?::([^:\s]+):([^:\s]+))?  and the end of the pattern
MatchSuffix(t, s, i, g) ==
  OrElse(IF LiteralAt(t, i, <<":">>)
           THEN SuffixUser(t, s, i, g, SuffixCredRun(t, i + 1)) ELSE Fail,
         Matched(s, i - 1,
                 << g[1], g[2], g[3], g[4], g[5], undefined, undefined >>))

\* (\d{1,5}) of length dl, dl-1, .., 1, followed by the suffix group
RECURSIVE PortDigits(_, _, _, _, _)
PortDigits(t, s, j, g, dl) ==
  IF dl < 1 THEN Fail
  ELSE OrElse(MatchSuffix(t, s, j + dl,
                          << g[1], g[2], g[3], g[4], SubSeq(t, j, j + dl - 1) >>),
              PortDigits(t, s, j, g, dl - 1))

\* the quantifier {1,5}
MaxPortDigits == 5

AtMost(n, limit) == IF n > limit THEN limit ELSE n

\* ([a-zA-Z0-9.-]+) of length hl, hl-1, .., 1, then ":" and the port
RECURSIVE HostChars(_, _, _, _, _)
HostChars(t, s, i, g, hl) ==
  IF hl < 1 THEN Fail
  ELSE OrElse(IF LiteralAt(t, i + hl, <<":">>)
                THEN PortDigits(t, s, i + hl + 1,
                                << g[1], g[2], g[3], SubSeq(t, i, i + hl - 1) >>,
                                AtMost(DigitRun(t, i + hl + 1), MaxPortDigits))
                ELSE Fail,
              HostChars(t, s, i, g, hl - 1))

\* ([a-zA-Z0-9.-]+):?(\d{1,5}) : the colon before the port made optional
RECURSIVE HostCharsOptionalColon(_, _, _, _, _)
HostCharsOptionalColon(t, s, i, g, hl) ==
  IF hl < 1 THEN Fail
  ELSE OrElse(IF LiteralAt(t, i + hl, <<":">>)
                THEN PortDigits(t, s, i + hl + 1,
                                << g[1], g[2], g[3], SubSeq(t, i, i + hl - 1) >>,
                                AtMost(DigitRun(t, i + hl + 1), MaxPortDigits))
                ELSE PortDigits(t, s, i + hl,
                                << g[1], g[2], g[3], SubSeq(t, i, i + hl - 1) >>,
                                AtMost(DigitRun(t, i + hl), MaxPortDigits)),
              HostCharsOptionalColon(t, s, i, g, hl - 1))

MatchHostPortOptionalColon(t, s, i, g) ==
  HostCharsOptionalColon(t, s, i, g, HostRun(t, i))

\* ([a-zA-Z0-9.-]+):(\d{1,5})  followed by the suffix group
MatchHostPort(t, s, i, g) == HostChars(t, s, i, g, HostRun(t, i))

\* the second ([^:@\s]+) of the prefix group, of length pl, pl-1, .., 1, then "@"
RECURSIVE PrefixPass(_, _, _, _, _, _)
PrefixPass(t, s, i, g, ul, pl) ==
  IF pl < 1 THEN Fail
  ELSE OrElse(IF LiteralAt(t, i + ul + 1 + pl, <<"@">>)
                THEN MatchHostPort(t, s, i + ul + pl + 2,
                                   << g[1], SubSeq(t, i, i + ul - 1),
                                      SubSeq(t, i + ul + 1, i + ul + pl) >>)
                ELSE Fail,
              PrefixPass(t, s, i, g, ul, pl - 1))

\* the first ([^:@\s]+) of the prefix group, of length ul, ul-1, .., 1, then ":"
RECURSIVE PrefixUser(_, _, _, _, _)
PrefixUser(t, s, i, g, ul) ==
  IF ul < 1 THEN Fail
  ELSE OrElse(IF LiteralAt(t, i + ul, <<":">>)
                THEN PrefixPass(t, s, i, g, ul, PrefixCredRun(t, i + ul + 1))
                ELSE Fail,
              PrefixUser(t, s, i, g, ul - 1))

\* (?:([^:@\s]+):([^:@\s]+)@)?  followed by host and port
MatchPrefix(t, s, i, g) ==
  OrElse(PrefixUser(t, s, i, g, PrefixCredRun(t, i)),
         MatchHostPort(t, s, i, << g[1], undefined, undefined >>))

\* \s+ of length wl, wl-1, .., 1, followed by the rest of the pattern
RECURSIVE Spaces(_, _, _, _, _)
Spaces(t, s, i, g, wl) ==
  IF wl < 1 THEN Fail
  ELSE OrElse(MatchPrefix(t, s, i + wl, g), Spaces(t, s, i, g, wl - 1))

\* the alternatives :\/\/ and \s+ (at most maxBlank characters of it)
Separator(t, s, i, g, maxBlank) ==
  IF LiteralAt(t, i, <<":", "/", "/">>)
    THEN OrElse(MatchPrefix(t, s, i + 3, g), Spaces(t, s, i, g, maxBlank))
    ELSE Spaces(t, s, i, g, maxBlank)

\* (?::\/\/|\s) : one white-space character only
MatchSeparatorOneSpace(t, s, i, g) ==
  Separator(t, s, i, g, AtMost(SpaceRun(t, i), 1))

\* (?::\/\/|\s+)  followed by the rest of the pattern
MatchSeparator(t, s, i, g) == Separator(t, s, i, g, SpaceRun(t, i))

\* (http|https|socks4|socks5|socks5h) from alternative a on, then the separator
RECURSIVE SchemeFrom(_, _, _)
SchemeFrom(t, s, a) ==
  IF a > Len(SchemeAlternatives) THEN Fail
  ELSE OrElse(IF LiteralAt(t, s, SchemeAlternatives[a])
                THEN MatchSeparator(t, s, s + Len(SchemeAlternatives[a]),
                       << SubSeq(t, s, s + Len(SchemeAlternatives[a]) - 1) >>)
                ELSE Fail,
              SchemeFrom(t, s, a + 1))

\* the whole pattern tried at start position s
MatchAt(t, s) ==
  OrElse(SchemeFrom(t, s, 1), MatchPrefix(t, s, s, << undefined >>))

\* the pattern tried at the start positions s, s+1, .., Len(t)
RECURSIVE MatchFrom(_, _)
MatchFrom(t, s) ==
  IF s > Len(t) THEN Fail
  ELSE OrElse(MatchAt(t, s), MatchFrom(t, s + 1))

\* text.match(regex): the match at the leftmost position that has one
match(t) == MatchFrom(t, 1)

(***************************************************************************)
(* smartParseProxy                                                          *)
(***************************************************************************)
null == [null |-> TRUE]

\* the call ends with an exception instead of a value
TypeError == [threw |-> "TypeError"]

DigitVal(c) == (CHOOSE i \in 1..Len(Digits) : Digits[i] = c) - 1

RECURSIVE DigitsValue(_)
DigitsValue(s) ==
  IF s = <<>> THEN 0
  ELSE 10 * DigitsValue(SubSeq(s, 1, Len(s) - 1)) + DigitVal(s[Len(s)])

\* isNaN(parseInt(s, 10)): no leading decimal digit
parseIntIsNaN(s) == DigitRun(s, 1) = 0

\* parseInt(s, 10) of a string that starts with a digit
parseInt(s) == DigitsValue(SubSeq(s, 1, DigitRun(s, 1)))

\* the type without its initial value "http"
resolveTypeNoDefault(rawType) ==
  IF includes(rawType, <<"s","o","c","k","s","4">>) THEN "socks4"
  ELSE IF includes(rawType, <<"s","o","c","k","s","5">>) THEN "socks5"
  ELSE IF includes(rawType, <<"h","t","t","p">>) THEN "http"
  ELSE ""

\* the type chosen from the lower-cased scheme token
resolveType(rawType) ==
  IF includes(rawType, <<"s","o","c","k","s","4">>) THEN "socks4"
  ELSE IF includes(rawType, <<"s","o","c","k","s","5">>) THEN "socks5"
  ELSE "http"

\* the range test without its upper limit
portRejectedNoUpperLimit(port) == parseIntIsNaN(port) \/ parseInt(port) < 0

\* if (isNaN(portNum) || portNum < 0 || portNum > 65535) return null
portRejected(port) ==
  parseIntIsNaN(port) \/ parseInt(port) < 0 \/ parseInt(port) > 65535

\* /^\.$/.test(host) : one dot only
hostRejectedSingleDot(host) == host = <<".">>

\* /^\.+$/.test(host)
hostRejected(host) ==
  /\ host # <<>>
  /\ \A i \in 1..Len(host) : host[i] = "."

\* match[6] || "" : the prefix pair forgotten
userOfSuffixOnly(g) == Or(g[6], <<>>)

\* match[6] || match[2] || "" : the suffix pair first
userOfSuffixFirst(g) == Or(g[6], Or(g[2], <<>>))

\* let user = match[2] || match[6] || ""
userOf(g) == Or(g[2], Or(g[6], <<>>))

\* match[3] || match[6] || "" : the wrong group for the suffix pass
passOfWrongGroup(g) == Or(g[3], Or(g[6], <<>>))

\* match[3] || "" : the suffix pair forgotten
passOfPrefixOnly(g) == Or(g[3], <<>>)

\* match[7] || match[3] || "" : the suffix pair first
passOfSuffixFirst(g) == Or(g[7], Or(g[3], <<>>))

\* let pass = match[3] || match[7] || ""
passOf(g) == Or(g[3], Or(g[7], <<>>))

\* lines 1705-1723: the descriptor built from the capture groups
fromGroups(g) ==
  IF portRejected(g[5]) THEN null
  ELSE IF hostRejected(g[4]) THEN null
  ELSE [type |-> resolveType(toLowerCase(Or(g[1], <<>>))),
        host |-> g[4],
        port |-> g[5],
        user |-> userOf(g),
        pass |-> passOf(g)]

\* without "if (!match) return null": match[1] of null throws
fromMatchNoGuard(m) == IF m = Fail THEN TypeError ELSE fromGroups(m[1].groups)

\* if (!match) return null
fromMatch(m) == IF m = Fail THEN null ELSE fromGroups(m[1].groups)

\* if (!text) return null
fromTrimmed(t) == IF t = <<>> THEN null ELSE fromMatch(match(t))

\* .trim() of a value: null and undefined have no method trim
fromText(v) == IF IsString(v) THEN fromTrimmed(trim(v)) ELSE TypeError

\* text without the "|| \"\""
textAsGiven(arg) == arg

\* (text || "")
textOrEmpty(arg) == Or(arg, <<>>)

smartParseProxy(arg) == fromText(textOrEmpty(arg))

(***************************************************************************)
(* Inputs: the texts handed to smartParseProxy, composed from parts         *)
(***************************************************************************)
MaxHostLen == 2

MaxRawLen == 4

Strings(A, lo, hi) == UNION {[1..k -> A] : k \in lo..hi}

ALICE == <<"a","l","i","c","e">>

SECRET == <<"s","e","c","r","e","t">>

HostAlphabet == {"a", "7", ".", "-"}

SampleHosts ==
  { <<"2","0","3",".","0",".","1","1","3",".","5">>,
    <<"1","9","2",".","1","6","8",".","1",".","1">>,
    <<".",".",".">>,
    <<"h">>,
    <<"h","t","t","p">>,
    <<"S","o","c","k","s","5">>,
    <<"x","-","Y",".","z","9">> }

Hosts == Strings(HostAlphabet, 1, MaxHostLen) \cup SampleHosts

FewHosts ==
  { <<"2","0","3",".","0",".","1","1","3",".","5">>, <<".",".">>, <<"h">> }

Ports ==
  { <<"0">>, <<"7">>, <<"8","0">>, <<"1","0","8","0">>, <<"8","0","8","0">>,
    <<"6","5","5","3","5">>, <<"6","5","5","3","6">>, <<"9","9","9","9","9">>,
    <<"0","0","0","8","0">>, <<"1","0","0","0","0","0">>,
    <<"6","5","5","3","5","0">>, <<"0","0","6","5","5","3","6">>,
    <<>>, <<"x">> }

FewPorts == { <<"1","0","8","0">>, <<"6","5","5","3","6">> }

CredTokens == { ALICE, <<"0">>, <<"P","/","x",".","-">> }

CredPairs == {<<u, p>> : u \in CredTokens, p \in CredTokens}

NoCreds == <<>>

FewCredPairs == { <<ALICE, SECRET>>, <<<<"0">>, <<"P","/","x",".","-">>>> }

\* every spelling of a scheme word in upper and lower case letters
CaseMixes(w) ==
  { [i \in 1..Len(w) |-> IF up[i] THEN ToUpperChar(w[i]) ELSE w[i]] :
      up \in [1..Len(w) -> BOOLEAN] }

SchemeWords == Range(SchemeAlternatives)

SchemeSpellings == UNION {CaseMixes(w) : w \in SchemeWords}

SLASHES == <<":", "/", "/">>

Blanks == { <<" ">>, <<"\t">>, <<"\n", " ", "\t">> }

PreJunk ==
  { <<"x", " ">>, <<"f","t","p",":","/","/">>, <<"x", "@">>, <<" ", "\t">>,
    <<"h","e","l","l","o"," ">>, <<"a", ":">> }

PostJunk ==
  { <<":", "x">>, <<" ", "a", ":", "1">>, <<"/", "p">>, <<"\n">>, <<"0">>,
    <<"@", "b">>, <<":", "u", ":", "p", ":", "q">> }

RawChars == {"a", ".", "1", ":", "@", " "}

RawSamples ==
  { <<"h","e","l","l","o"," ","w","o","r","l","d">>,
    <<".", ":", "8", "0">>,
    <<"u", ":", "p", "@", ".", ".", ":", "8", "0">>,
    <<"s","o","c","k","s","5",":","/","/",".",".",".",":","1","0","8","0">>,
    <<" ", "\t", "\n">>,
    undefined, nullArg }

Endpoint(pre, scheme, sep, prefix, host, port, suffix, post) ==
  [kind |-> "endpoint", pre |-> pre, scheme |-> scheme, sep |-> sep,
   prefix |-> prefix, host |-> host, port |-> port, suffix |-> suffix,
   post |-> post]

Raw(s) ==
  [kind |-> "raw", pre |-> s, scheme |-> <<>>, sep |-> <<>>,
   prefix |-> NoCreds, host |-> <<>>, port |-> <<>>, suffix |-> NoCreds,
   post |-> <<>>]

PrefixText(c) == IF c = NoCreds THEN <<>> ELSE c[1] \o <<":">> \o c[2] \o <<"@">>

SuffixText(c) == IF c = NoCreds THEN <<>> ELSE <<":">> \o c[1] \o <<":">> \o c[2]

BodyText(in) ==
  PrefixText(in.prefix) \o in.host \o <<":">> \o in.port \o SuffixText(in.suffix)

Compose(in) ==
  IF in.kind = "raw" THEN in.pre
  ELSE in.pre \o in.scheme \o in.sep \o BodyText(in) \o in.post

\* host:port, host:port:user:pass, user:pass@host:port (and both pairs)
PlainInput(in) ==
  \/ \E c \in CredPairs \cup {NoCreds}, h \in Hosts, p \in Ports :
       in = Endpoint(<<>>, <<>>, <<>>, c, h, p, NoCreds, <<>>)
  \/ \E c \in CredPairs, h \in Hosts, p \in Ports :
       in = Endpoint(<<>>, <<>>, <<>>, NoCreds, h, p, c, <<>>)
  \/ \E c \in FewCredPairs, d \in FewCredPairs, h \in FewHosts, p \in FewPorts :
       in = Endpoint(<<>>, <<>>, <<>>, c, h, p, d, <<>>)

OneCredPair ==
  { <<NoCreds, NoCreds>>, <<<<ALICE, SECRET>>, NoCreds>>,
    <<NoCreds, <<ALICE, SECRET>>>> }

\* scheme://body and scheme body
SchemeInput(in) ==
  \E w \in SchemeSpellings, sep \in {SLASHES} \cup Blanks, c \in OneCredPair,
     h \in FewHosts, p \in FewPorts :
       in = Endpoint(<<>>, w, sep, c[1], h, p, c[2], <<>>)

\* text around an endpoint, and scheme words with a wrong separator
JunkInput(in) ==
  \E pre \in PreJunk \cup {<<>>}, post \in PostJunk \cup {<<>>},
     w \in {<<>>, <<"s","o","c","k","s","5","h">>},
     sep \in {<<>>, SLASHES, <<" ">>, <<":">>},
     c \in OneCredPair,
     h \in {<<"h">>, <<".",".">>}, p \in {<<"8","0">>, <<"6","5","5","3","6">>} :
       in = Endpoint(pre, w, sep, c[1], h, p, c[2], post)

\* any short text, and the texts of the examples
RawInput(in) ==
  \E s \in Strings(RawChars, 0, MaxRawLen) \cup RawSamples : in = Raw(s)

(***************************************************************************)
(* The edit form: the proxy fields of the edit view and the functions that  *)
(* write them                                                               *)
(***************************************************************************)
\* the text of a descriptor's type
typeText(type) ==
  CASE type = "http" -> <<"h","t","t","p">>
    [] type = "https" -> <<"h","t","t","p","s">>
    [] type = "socks4" -> <<"s","o","c","k","s","4">>
    [] type = "socks5" -> <<"s","o","c","k","s","5">>

NOT_CHECKED_YET == "Not checked yet"

\* the fields of the edit view as the page has them before any view is opened
blankForm ==
  [ name |-> <<>>,
    enabled |-> FALSE,
    type |-> typeText("http"),
    host |-> <<>>, selectionStart |-> 0, selectionEnd |-> 0,
    port |-> <<>>,
    user |-> <<>>, userDisabled |-> FALSE,
    pass |-> <<>>, passDisabled |-> FALSE,
    status |-> NOT_CHECKED_YET, statusClass |-> "" ]

\* epProxyHost.value = v : the caret of a text field moves to the end of a
\* value set by script
setHostValue(f, v) ==
  [f EXCEPT !.host = v, !.selectionStart = Len(v), !.selectionEnd = Len(v)]

resetProxyStatus(f) ==
  [f EXCEPT !.status = NOT_CHECKED_YET, !.statusClass = ""]

\* setCSelectValue(el("epProxyTypeSel"), value): the hidden input epProxyType
setProxyTypeValue(f, value) == [f EXCEPT !.type = value]

updateProxyAuthEnabled(f) ==
  IF toLowerCase(f.type) = typeText("socks4")
    THEN [f EXCEPT !.userDisabled = TRUE, !.passDisabled = TRUE,
                   !.user = <<>>, !.pass = <<>>]
    ELSE [f EXCEPT !.userDisabled = FALSE, !.passDisabled = FALSE]

\* a proxy object without fields
noProxy ==
  [ enabled |-> FALSE, type |-> <<>>, host |-> <<>>, port |-> <<>>,
    username |-> <<>>, password |-> <<>> ]

\* the proxy fields of fillEditForm, before updateProxyAuthEnabled
filledProxyFields(f, pr) ==
  [ setHostValue(f, pr.host)
      EXCEPT !.enabled = pr.enabled,
             !.type = toLowerCase(Or(pr.type, typeText("http"))),
             !.port = pr.port,
             !.user = pr.username,
             !.pass = pr.password ]

fillEditForm(f, data) ==
  resetProxyStatus(
    updateProxyAuthEnabled(
      filledProxyFields([f EXCEPT !.name = data.name], data.proxy)))

\* the object readEditForm returns (name and proxy)
readEditForm(f) ==
  [ name |-> trim(f.name),
    proxy |-> [ enabled |-> f.enabled,
                type |-> toLowerCase(trim(f.type)),
                host |-> trim(f.host),
                port |-> trim(f.port),
                username |-> f.user,
                password |-> f.pass ] ]

ACCEPTED_TYPES == {"http", "socks4", "socks5"}

\* if(u && !u.disabled) u.value = data.user; the same for the password
writeCredentials(f, data) ==
  [f EXCEPT !.user = IF f.userDisabled THEN @ ELSE data.user,
            !.pass = IF f.passDisabled THEN @ ELSE data.pass]

\* the type written without the call of updateProxyAuthEnabled
typeAppliedNoAuthUpdate(f, data) ==
  IF data.type \in ACCEPTED_TYPES
    THEN setProxyTypeValue(f, typeText(data.type))
    ELSE f

\* if(data.type && [...].includes(data.type)) { ... }
typeApplied(f, data) ==
  IF data.type \in ACCEPTED_TYPES
    THEN updateProxyAuthEnabled(setProxyTypeValue(f, typeText(data.type)))
    ELSE f

applyProxyToForm(f, data) ==
  IF data = null THEN f
  ELSE resetProxyStatus(
         writeCredentials(
           [ setHostValue(typeApplied([f EXCEPT !.enabled = TRUE], data),
                          data.host)
               EXCEPT !.port = data.port ],
           data))

\* val.slice(0, start) + trimmed text + val.slice(end)
insertedTrimmed(f, t) ==
  [f EXCEPT !.host = SubSeq(f.host, 1, f.selectionStart) \o trim(t)
                       \o SubSeq(f.host, f.selectionEnd + 1, Len(f.host)),
            !.selectionStart = f.selectionStart + Len(trim(t)),
            !.selectionEnd = f.selectionStart + Len(trim(t))]

\* val.slice(0, start) + text + val.slice(end), the caret after the text
inserted(f, t) ==
  [f EXCEPT !.host = SubSeq(f.host, 1, f.selectionStart) \o t
                       \o SubSeq(f.host, f.selectionEnd + 1, Len(f.host)),
            !.selectionStart = f.selectionStart + Len(t),
            !.selectionEnd = f.selectionStart + Len(t)]

\* the else branch of the paste listener; the input event it dispatches
\* runs resetProxyStatus
pastedLiterally(f, t) == resetProxyStatus(inserted(f, t))

\* parsed ? applyProxyToForm(parsed) : literal insertion
pasteOutcome(f, t, parsed) ==
  IF parsed # null THEN applyProxyToForm(f, parsed) ELSE pastedLiterally(f, t)

\* if(!text) return; parsed = smartParseProxy(text)
parsedOf(t) == IF t = <<>> THEN null ELSE smartParseProxy(t)

\* the paste listener of epProxyHost, parsed being parsedOf(t)
hostPaste(f, t, parsed) == IF t = <<>> THEN f ELSE pasteOutcome(f, t, parsed)

(***************************************************************************)
(* The profiles, the backend's answers and the texts of the clipboard       *)
(***************************************************************************)
\* the longest text the host field holds
MaxFieldLen == 3

\* the most getProfileDetail callbacks outstanding at a time
MaxPending == 2

\* the most callbacks of the Paste button outstanding at a time
MaxPastes == 1

RECURSIVE ToDecimal(_)
\* String(n) of a natural number
ToDecimal(n) ==
  IF n < 10 THEN <<Digits[n + 1]>>
  ELSE ToDecimal(n \div 10) \o <<Digits[(n % 10) + 1]>>

\* asId(x) == String(x ?? ""), for the numeric id of a table row
asId(x) == ToDecimal(x)

NEW_PROFILE == <<"N","e","w"," ","P","r","o","f","i","l","e"," ">>

\* state.profiles: the rows of the profile table
profiles ==
  << [id |-> 1, name |-> <<"W","o","r","k">>],
     [id |-> 2, name |-> <<"n","e","w"," ","p","r","o","f","i","l","e"," ","2">>] >>

\* what backend.getProfileDetail answers for a profile
profileDetail(id) ==
  IF id = asId(1)
    THEN [ name |-> profiles[1].name,
           proxy |-> [ enabled |-> TRUE, type |-> <<"S","O","C","K","S","5">>,
                       host |-> <<"w">>, port |-> <<"8">>,
                       username |-> <<"u">>, password |-> <<"p">> ] ]
    ELSE [ name |-> profiles[2].name,
           proxy |-> [ enabled |-> FALSE, type |-> <<>>,
                       host |-> <<>>, port |-> <<>>,
                       username |-> <<>>, password |-> <<>> ] ]

\* the number n of a name "New Profile n", 0 for any other name
profileNumber(name) ==
  IF /\ Len(name) > Len(NEW_PROFILE)
     /\ toLowerCase(SubSeq(name, 1, Len(NEW_PROFILE))) = toLowerCase(NEW_PROFILE)
     /\ \A i \in (Len(NEW_PROFILE) + 1)..Len(name) : name[i] \in DigitSet
    THEN DigitsValue(SubSeq(name, Len(NEW_PROFILE) + 1, Len(name)))
    ELSE 0

getNextProfileName ==
  NEW_PROFILE \o
    ToDecimal(Max({profileNumber(trim(profiles[i].name)) : i \in 1..Len(profiles)}) + 1)

\* the texts a paste event carries
PastedTexts ==
  { <<>>,
    <<" ", "x">>,
    <<"h", ":", "8", ":", "u", ":", "p">>,
    <<"s","o","c","k","s","4"," ","u",":","p","@","h",":","8">> }

\* the objects backend.parseProxyString answers with: ok or not, and the
\* fields the click listener maps
BackendAnswers ==
  { [ok |-> FALSE, type |-> "", host |-> <<>>, port |-> <<>>,
     username |-> <<>>, password |-> <<>>] }
  \cup
  { [ok |-> TRUE, type |-> t, host |-> <<"h">>, port |-> <<"8">>,
     username |-> <<"u">>, password |-> <<"p">>] :
       t \in {"http", "https", "socks4", "socks5"} }

\* the values of the items of the proxy type menu
ProxyTypeItems == {typeText(t) : t \in ACCEPTED_TYPES}

\* no write is on its way to the backend
noWrite == [call |-> "none"]

(***************************************************************************)
(* The proxy check: the Check button and the proxyChecked signal            *)
(***************************************************************************)
\* the most checks started in a run
MaxChecks == 2

CHECKING == "Checking..."

ERROR_PARSING == "Error parsing result."

\* the reports the backend sends with proxyChecked: an object with ok and
\* msg, or a text that is no such object
CheckReports ==
  { [ok |-> TRUE, msg |-> "live"], [ok |-> FALSE, msg |-> "dead"],
    [broken |-> TRUE] }

\* state.proxyCheckReqId, the disabled flag of the Check button, the checks
\* sent to the backend and not answered yet, the number of ids made so far,
\* and the arguments of the last proxyChecked signal
noCheck ==
  [ proxyCheckReqId |-> nullArg, disabled |-> FALSE, sent |-> <<>>,
    made |-> 0, reqId |-> <<>>, report |-> [broken |-> TRUE] ]

\* `${Date.now()}_${Math.random()...}`: an id not made before
freshId(c) == ToDecimal(c.made + 1)

\* the three early returns of the click listener
checkRefused(f) ==
  \/ ~f.enabled
  \/ trim(f.host) = <<>> \/ trim(f.port) = <<>>
  \/ (trim(f.user) = <<>>) # (trim(f.pass) = <<>>)

\* the form after a click on Check
checkClickedForm(f) ==
  IF checkRefused(f) THEN [f EXCEPT !.statusClass = ""]
  ELSE [f EXCEPT !.status = CHECKING, !.statusClass = "is-live"]

\* the proxy object sent with backend.checkProxy
checkedProxy(f) == [readEditForm(f).proxy EXCEPT !.enabled = TRUE]

checkClicked(c, f) ==
  IF checkRefused(f) THEN c
  ELSE [c EXCEPT !.proxyCheckReqId = freshId(c),
                 !.disabled = TRUE,
                 !.made = @ + 1,
                 !.sent = Append(@, [id |-> freshId(c), proxy |-> checkedProxy(f)])]

\* the signal passes the two returns at the head of the listener, without
\* the comparison with state.proxyCheckReqId
passesAnyId(c, reqId) == reqId # <<>>

\* if(!reqId) return; if(state.proxyCheckReqId && reqId !== ...) return
passes(c, reqId) ==
  /\ reqId # <<>>
  /\ c.proxyCheckReqId = nullArg \/ reqId = c.proxyCheckReqId

\* the status the listener shows for a report
shownReport(f, report) ==
  IF "ok" \in DOMAIN report
    THEN [f EXCEPT !.status = report.msg,
                   !.statusClass = IF report.ok THEN "is-live" ELSE "is-die"]
    ELSE [f EXCEPT !.status = ERROR_PARSING, !.statusClass = ""]

\* the form and the button after the proxyChecked listener
proxyCheckedForm(c, f, reqId, report) ==
  IF passes(c, reqId) THEN shownReport(f, report) ELSE f

proxyCheckedButton(c, reqId) ==
  IF passes(c, reqId) THEN [c EXCEPT !.disabled = FALSE] ELSE c

(***************************************************************************)
(* The profile table: the list, the selection, the search and the delete    *)
(* dialog                                                                   *)
(***************************************************************************)
\* every profile the backend has ever listed
allProfiles == profiles \o << [id |-> 3, name |-> <<"W","e","b">>] >>

RECURSIVE SubLists(_)
\* the lists made of some of the elements of list, in its order
SubLists(list) ==
  IF list = <<>> THEN {<<>>}
  ELSE LET rest == SubLists(Tail(list))
       IN rest \cup {<<Head(list)>> \o l : l \in rest}

\* the lists the backend sends with profilesChanged
ProfileLists == SubLists(allProfiles)

\* the texts typed into the search box
SearchTexts == { <<>>, <<"o","r">>, <<" ","N","E","W"," ">> }

\* norm(s).trim()
normTrim(s) == trim(toLowerCase(s))

RECURSIVE filter(_, _)
\* state.profiles.filter(p => norm(p.name).includes(q))
filter(list, q) ==
  IF list = <<>> THEN <<>>
  ELSE IF includes(toLowerCase(Head(list).name), q)
         THEN <<Head(list)>> \o filter(Tail(list), q)
         ELSE filter(Tail(list), q)

visibleProfiles(t) ==
  IF normTrim(t.searchQuery) = <<>> THEN t.profiles
  ELSE filter(t.profiles, normTrim(t.searchQuery))

\* the elements of a sequence
Elements(seq) == {seq[i] : i \in DOMAIN seq}

RECURSIVE without(_, _)
\* Set.delete(id) on a Set kept in insertion order
without(seq, id) ==
  IF seq = <<>> THEN <<>>
  ELSE IF Head(seq) = id THEN without(Tail(seq), id)
  ELSE <<Head(seq)>> \o without(Tail(seq), id)

\* Set.add(id)
with(seq, id) == IF id \in Elements(seq) THEN seq ELSE Append(seq, id)

\* pendingDelete = null
noDelete == [none |-> TRUE]

\* state.profiles, state.selected, state.searchQuery, the rows render() built
\* (pid and checked flag of each check box), the header check box, the
\* hidden flag of the Delete-all button, pendingDelete and the delete calls
\* the listener that ran last made
noTable ==
  [ profiles |-> <<>>, selected |-> <<>>, searchQuery |-> <<>>,
    rows |-> <<>>, chkAll |-> FALSE, delAllHidden |-> TRUE,
    pendingDelete |-> noDelete, calls |-> <<>> ]

\* the ids of state.profiles, as pruneSelection collects them
listedIds(t) == {asId(t.profiles[i].id) : i \in DOMAIN t.profiles}

\* the header check box and the Delete-all button after updateHeaderCheckbox
updateHeaderCheckbox(t) ==
  [t EXCEPT
     !.chkAll = /\ visibleProfiles(t) # <<>>
                /\ \A i \in DOMAIN visibleProfiles(t) :
                      asId(visibleProfiles(t)[i].id) \in Elements(t.selected),
     !.delAllHidden = Len(t.selected) < 2]

\* the rows render() builds, one for each visible profile
renderedRows(t) ==
  [i \in DOMAIN visibleProfiles(t) |->
     [pid |-> asId(visibleProfiles(t)[i].id),
      checked |-> asId(visibleProfiles(t)[i].id) \in Elements(t.selected)]]

render(t) == updateHeaderCheckbox([t EXCEPT !.rows = renderedRows(t)])

RECURSIVE kept(_, _)
\* the ids of a selection that are in ids, in their order
kept(seq, ids) ==
  IF seq = <<>> THEN <<>>
  ELSE IF Head(seq) \in ids THEN <<Head(seq)>> \o kept(Tail(seq), ids)
  ELSE kept(Tail(seq), ids)

\* the profilesChanged listener without its call of pruneSelection
notPruned(t) == t

pruneSelection(t) == [t EXCEPT !.selected = kept(t.selected, listedIds(t))]

\* the profilesChanged listener
profilesChanged(t, list) == render(pruneSelection([t EXCEPT !.profiles = list]))

\* the input listener of tbody on the check box of row i, which the click
\* has just flipped
rowToggled(t, i) ==
  updateHeaderCheckbox(
    [t EXCEPT !.rows[i].checked = ~t.rows[i].checked,
              !.selected = IF ~t.rows[i].checked
                             THEN with(t.selected, t.rows[i].pid)
                             ELSE without(t.selected, t.rows[i].pid)])

RECURSIVE allSet(_, _, _)
\* the loop of the chkAll listener over the visible profiles
allSet(selected, list, checked) ==
  IF list = <<>> THEN selected
  ELSE allSet(IF checked THEN with(selected, asId(Head(list).id))
                         ELSE without(selected, asId(Head(list).id)),
              Tail(list), checked)

\* the input listener of chkAll, the click having set the box to checked
allToggled(t, checked) ==
  updateHeaderCheckbox(
    [t EXCEPT !.selected = allSet(t.selected, visibleProfiles(t), checked),
              !.rows = [i \in DOMAIN t.rows |-> [t.rows[i] EXCEPT !.checked = checked]]])

\* applySearch with the text q in the search box
searched(t, q) == render([t EXCEPT !.searchQuery = q])

BULK == [isBulk |-> TRUE]

\* the delete calls of the dlgOk listener: one deleteProfiles call with the
\* selected ids or one deleteProfile call for each, or the single profile's
deleteCalls(t, hasDeleteProfiles) ==
  IF t.pendingDelete = BULK
    THEN IF hasDeleteProfiles
           THEN << [call |-> "deleteProfiles", ids |-> t.selected] >>
           ELSE [i \in DOMAIN t.selected |->
                   [call |-> "deleteProfile", ids |-> <<t.selected[i]>>]]
    ELSE << [call |-> "deleteProfile", ids |-> <<asId(t.pendingDelete.id)>>] >>

\* the selection is not cleared after a bulk delete
confirmedKeepingSelection(t, hasDeleteProfiles) ==
  [t EXCEPT !.pendingDelete = noDelete,
            !.calls = deleteCalls(t, hasDeleteProfiles)]

\* the click listener of the dlgOk button that replaced the original one
confirmed(t, hasDeleteProfiles) ==
  IF t.pendingDelete = BULK
    THEN updateHeaderCheckbox(
           [t EXCEPT !.pendingDelete = noDelete,
                     !.calls = deleteCalls(t, hasDeleteProfiles),
                     !.selected = <<>>])
    ELSE [t EXCEPT !.pendingDelete = noDelete,
                   !.calls = deleteCalls(t, hasDeleteProfiles)]

(***************************************************************************)
(* The context menu of a row and its close timer                            *)
(***************************************************************************)
\* the most timers set in a run
MaxTimers == 3

\* the delay of the close timer in milliseconds
CLOSE_DELAY == 140

\* state.menuProfile = null
noProfile == [none |-> TRUE]

\* state.menuOpen, state.menuProfile, state.closeTimer (0 for null), the
\* timers that are set and have neither fired nor been cleared, the number of
\* timers made so far, and where the pointer is: away, on the kebab button
\* of a row, or on the menu
noMenu ==
  [ menuOpen |-> FALSE, menuProfile |-> noProfile, closeTimer |-> 0,
    timers |-> {}, made |-> 0, pointer |-> "away" ]

clearTimeout(m, id) == [m EXCEPT !.timers = @ \ {id}]

\* setTimeout(() => closeMenu(), 140): a timer with a new id
setTimeout(m, delay) ==
  [m EXCEPT !.timers = @ \cup {m.made + 1}, !.made = @ + 1,
            !.closeTimer = m.made + 1]

scheduleClose(m) == setTimeout(clearTimeout(m, m.closeTimer), CLOSE_DELAY)

cancelClose(m) == [clearTimeout(m, m.closeTimer) EXCEPT !.closeTimer = 0]

openMenuFor(m, p) == [m EXCEPT !.menuOpen = TRUE, !.menuProfile = p]

closeMenu(m) == [m EXCEPT !.menuOpen = FALSE, !.menuProfile = noProfile]

\* the mouseenter listener of a kebab button without its cancelClose()
kebabEnteredNoCancel(m, p) == openMenuFor(m, p)

\* the mouseenter listener of the kebab button of the row of p
kebabEntered(m, p) == openMenuFor(cancelClose(m), p)

\* the click listener of the document: a click on the menu or on a kebab
\* button is left alone
documentClicked(m) == IF m.pointer = "away" THEN closeMenu(m) ELSE m

\* the page after load: the profile table is shown, the form is blank
PageLoaded ==
  /\ table = noTable
  /\ menu = noMenu
  /\ check = noCheck
  /\ form = blankForm
  /\ state = [isCreateMode |-> FALSE, editProfileId |-> nullArg]
  /\ view = "profiles"
  /\ pending = <<>>
  /\ write = noWrite

(***************************************************************************)
(* The state machine: a text is chosen, smartParseProxy is called on it     *)
(***************************************************************************)
Init ==
  /\ \/ PlainInput(input)
     \/ SchemeInput(input)
     \/ JunkInput(input)
     \/ RawInput(input)
  /\ text = Compose(input)
  /\ result = null
  /\ pc = "call"
  /\ PageLoaded

Parse ==
  /\ pc = "call"
  /\ result' = smartParseProxy(text)
  /\ pc' = "done"
  /\ UNCHANGED <<menu, table, check, input, text, form, state, view, pending, write>>

Next == Parse

Spec == Init /\ [][Next]_vars

TypeOK ==
  /\ pc \in {"call", "done"}
  /\ result = null \/ DOMAIN result = {"type", "host", "port", "user", "pass"}

(***************************************************************************)
(* The edit view: opening it, the backend's callbacks, the listeners of    *)
(* the proxy fields and of the Save button.  pc names the listener that    *)
(* ran last; text and result are the clipboard text and its parse.         *)
(***************************************************************************)
FormInit ==
  /\ input = Raw(<<>>)
  /\ text = <<>>
  /\ result = null
  /\ pc = "loaded"
  /\ PageLoaded

\* a listener without the locals text and parsed of the paste listener
NoLocals == text' = <<>> /\ result' = null

\* a call of the backend whose callback has not run yet
Request(call, id) == [call |-> call, id |-> id]

\* openEditProfile(p), from the menu or a double click in the profile table
OpenEditProfile(p) ==
  /\ view = "profiles"
  /\ Len(pending) < MaxPending
  /\ state' = [isCreateMode |-> FALSE, editProfileId |-> asId(p.id)]
  /\ view' = "edit"
  /\ form' = fillEditForm(form, [name |-> p.name, proxy |-> noProxy])
  /\ pending' = Append(pending, Request("getProfileDetail", asId(p.id)))
  /\ pc' = "openEditProfile"
  /\ NoLocals /\ UNCHANGED <<menu, table, check, input, write>>

OpenCreateProfile ==
  /\ view = "profiles"
  /\ state' = [isCreateMode |-> TRUE, editProfileId |-> nullArg]
  /\ view' = "edit"
  /\ form' = fillEditForm(form,
               [name |-> getNextProfileName,
                proxy |-> [noProxy EXCEPT !.type = typeText("http")]])
  /\ pc' = "openCreateProfile"
  /\ NoLocals /\ UNCHANGED <<menu, table, check, input, pending, write>>

\* epCancel: showProfilesView()
Cancel ==
  /\ view = "edit"
  /\ view' = "profiles"
  /\ pc' = "epCancel"
  /\ NoLocals /\ UNCHANGED <<menu, table, check, input, form, state, pending, write>>

\* the callback of backend.getProfileDetail: the answer parses to an object
\* or it does not
DetailAnswered(ok) ==
  /\ pending # <<>>
  /\ Head(pending).call = "getProfileDetail"
  /\ form' = IF ok THEN fillEditForm(form, profileDetail(Head(pending).id))
                   ELSE form
  /\ pending' = Tail(pending)
  /\ pc' = "getProfileDetail"
  /\ NoLocals /\ UNCHANGED <<menu, table, check, input, state, view, write>>

\* the user puts the caret or a selection into the host field
Select(start, end) ==
  /\ view = "edit"
  /\ start <= end /\ end <= Len(form.host)
  /\ form' = [form EXCEPT !.selectionStart = start, !.selectionEnd = end]
  /\ pc' = "select"
  /\ NoLocals /\ UNCHANGED <<menu, table, check, input, state, view, pending, write>>

\* the paste listener of epProxyHost
HostPaste(t) ==
  /\ view = "edit"
  /\ \E parsed \in {parsedOf(t)} :
       /\ \/ parsed # null
          \/ Len(form.host) - (form.selectionEnd - form.selectionStart) + Len(t)
               <= MaxFieldLen
       /\ form' = hostPaste(form, t, parsed)
       /\ result' = parsed
  /\ text' = t
  /\ pc' = "hostPaste"
  /\ UNCHANGED <<menu, table, check, input, state, view, pending, write>>

\* the calls of the Paste button whose callbacks have not run yet
pastesPending ==
  Cardinality({i \in DOMAIN pending : pending[i].call # "getProfileDetail"})

\* the click listener of epProxyPaste
PasteClick ==
  /\ view = "edit"
  /\ pastesPending < MaxPastes
  /\ pending' = Append(pending, Request("clipboardPaste", <<>>))
  /\ pc' = "epProxyPaste"
  /\ NoLocals /\ UNCHANGED <<menu, table, check, input, form, state, view, write>>

\* the callback of backend.clipboardPaste: with a text it asks the backend
\* to parse it
ClipboardAnswered(hasText) ==
  /\ pending # <<>>
  /\ Head(pending).call = "clipboardPaste"
  /\ pending' = IF hasText
                  THEN Append(Tail(pending), Request("parseProxyString", <<>>))
                  ELSE Tail(pending)
  /\ pc' = "clipboardPaste"
  /\ NoLocals /\ UNCHANGED <<menu, table, check, input, form, state, view, write>>

\* the object the click listener builds from the backend's answer
mappedData(data) ==
  [type |-> data.type, host |-> data.host, port |-> data.port,
   user |-> data.username, pass |-> data.password]

\* the callback of backend.parseProxyString
ParseAnswered(data) ==
  /\ pending # <<>>
  /\ Head(pending).call = "parseProxyString"
  /\ form' = IF data.ok THEN applyProxyToForm(form, mappedData(data)) ELSE form
  /\ text' = <<>>
  /\ result' = IF data.ok THEN mappedData(data) ELSE null
  /\ pending' = Tail(pending)
  /\ pc' = "parseProxyString"
  /\ UNCHANGED <<menu, table, check, input, state, view, write>>

\* a click on an item of the proxy type menu
SelectType(v) ==
  /\ view = "edit"
  /\ form' = resetProxyStatus(updateProxyAuthEnabled(setProxyTypeValue(form, v)))
  /\ pc' = "epProxyTypeSel"
  /\ NoLocals /\ UNCHANGED <<menu, table, check, input, state, view, pending, write>>

\* the click listener of epProxyClean
Clean ==
  /\ view = "edit"
  /\ form' = resetProxyStatus(
               [setHostValue(form, <<>>)
                  EXCEPT !.port = <<>>, !.user = <<>>, !.pass = <<>>,
                         !.enabled = FALSE])
  /\ pc' = "epProxyClean"
  /\ NoLocals /\ UNCHANGED <<menu, table, check, input, state, view, pending, write>>

\* the call the Save button makes; none in edit mode without id or name
saveCall(st, data) ==
  IF st.isCreateMode
    THEN [call |-> "createProfileFull", pid |-> nullArg, data |-> data]
  ELSE IF st.editProfileId \in {nullArg, <<>>} \/ data.name = <<>>
    THEN noWrite
  ELSE [call |-> "saveProfileDetail", pid |-> st.editProfileId, data |-> data]

\* the click listener of epSave; the button is disabled while a write is on
\* its way
Save ==
  /\ view = "edit"
  /\ write = noWrite
  /\ write' = saveCall(state, readEditForm(form))
  /\ pc' = "epSave"
  /\ NoLocals /\ UNCHANGED <<menu, table, check, input, form, state, view, pending>>

\* the timer after createProfileFull, or the callback of saveProfileDetail
\* with its ok flag: the button is enabled again, the view closes on success
SaveDone(ok) ==
  /\ write # noWrite
  /\ write' = noWrite
  /\ view' = IF write.call = "createProfileFull" \/ ok THEN "profiles" ELSE view
  /\ pc' = "saved"
  /\ NoLocals /\ UNCHANGED <<menu, table, check, input, form, state, pending>>

\* the listeners of the proxy fields, in an edit view opened on a profile
FormNext ==
  \/ \E i \in 1..Len(profiles) : OpenEditProfile(profiles[i])
  \/ \E ok \in BOOLEAN : DetailAnswered(ok)
  \/ \E start, end \in 0..MaxFieldLen : Select(start, end)
  \/ \E t \in PastedTexts : HostPaste(t)
  \/ PasteClick
  \/ \E hasText \in BOOLEAN : ClipboardAnswered(hasText)
  \/ \E data \in BackendAnswers : ParseAnswered(data)
  \/ \E v \in ProxyTypeItems : SelectType(v)
  \/ Clean

FormSpec == FormInit /\ [][FormNext]_vars

\* opening, leaving and saving the edit view
EditNext ==
  \/ \E i \in 1..Len(profiles) : OpenEditProfile(profiles[i])
  \/ OpenCreateProfile
  \/ Cancel
  \/ \E ok \in BOOLEAN : DetailAnswered(ok)
  \/ \E v \in ProxyTypeItems : SelectType(v)
  \/ Clean
  \/ Save
  \/ \E ok \in BOOLEAN : SaveDone(ok)

EditSpec == FormInit /\ [][EditNext]_vars

(***************************************************************************)
(* Checking the proxy of the edit form                                      *)
(***************************************************************************)
\* the click listener of epProxyCheck; a disabled button takes no click
CheckClick ==
  /\ view = "edit"
  /\ ~check.disabled
  /\ check.made < MaxChecks
  /\ check' = checkClicked(check, form)
  /\ form' = checkClickedForm(form)
  /\ pc' = "epProxyCheck"
  /\ NoLocals /\ UNCHANGED <<menu, table, input, state, view, pending, write>>

\* the proxyChecked listener on a signal with the id reqId
proxyCheckedSignal(reqId, report, sent) ==
  /\ check' = [proxyCheckedButton(check, reqId)
                 EXCEPT !.sent = sent, !.reqId = reqId, !.report = report]
  /\ form' = proxyCheckedForm(check, form, reqId, report)
  /\ pc' = "proxyChecked"
  /\ NoLocals /\ UNCHANGED <<menu, table, input, state, view, pending, write>>

\* the backend reports on the oldest check it has not answered
ProxyCheckAnswered(report) ==
  /\ check.sent # <<>>
  /\ proxyCheckedSignal(Head(check.sent).id, report, Tail(check.sent))

\* the ids of the checks the backend has not answered
idsSent == {check.sent[i].id : i \in DOMAIN check.sent}

\* a proxyChecked signal that answers no open check: no id, an id never
\* made, or the id of a check answered before
StrayProxyChecked(reqId, report) ==
  /\ reqId \notin idsSent
  /\ proxyCheckedSignal(reqId, report, check.sent)

StrayIds == {<<>>} \cup {ToDecimal(k) : k \in 0..MaxChecks}

\* the edit view of a profile, its proxy fields and the Check button
CheckNext ==
  \/ \E i \in 1..Len(profiles) : OpenEditProfile(profiles[i])
  \/ \E ok \in BOOLEAN : DetailAnswered(ok)
  \/ \E v \in ProxyTypeItems : SelectType(v)
  \/ Clean
  \/ CheckClick
  \/ \E report \in CheckReports : ProxyCheckAnswered(report)
  \/ \E reqId \in StrayIds, report \in CheckReports : StrayProxyChecked(reqId, report)

CheckSpec == FormInit /\ [][CheckNext]_vars

(***************************************************************************)
(* The profile table, the context menu of its rows and the delete dialog    *)
(***************************************************************************)
\* no dialog covers the table
TableFree == view = "profiles" /\ table.pendingDelete = noDelete

\* a listener that makes no delete call
noCalls(t) == [t EXCEPT !.calls = <<>>]

\* the listener named name leaves the table as t and the menu as m
TableStep(t, m, name) ==
  /\ table' = t
  /\ menu' = m
  /\ pc' = name
  /\ NoLocals
  /\ UNCHANGED <<check, input, form, state, view, pending, write>>

\* render() puts new kebab buttons in place of the old ones: a pointer on an
\* old button is on none of the new ones until it moves
rowsReplaced(m) == [m EXCEPT !.pointer = IF @ = "kebab" THEN "away" ELSE @]

\* the profilesChanged signal of the backend
ProfilesChanged(list) ==
  TableStep(noCalls(profilesChanged(table, list)), rowsReplaced(menu),
            "profilesChanged")

\* a click on the check box of a row
RowToggle(i) ==
  /\ TableFree
  /\ i \in DOMAIN table.rows
  /\ TableStep(noCalls(rowToggled(table, i)), menu, "rowToggle")

\* a click on the header check box, which is disabled over an empty table
AllToggle ==
  /\ TableFree
  /\ visibleProfiles(table) # <<>>
  /\ TableStep(noCalls(allToggled(table, ~table.chkAll)), menu, "chkAll")

Search(q) ==
  /\ TableFree
  /\ TableStep(noCalls(searched(table, q)), rowsReplaced(menu), "search")

\* the pointer comes onto the kebab button of a row, rendered for profile p
KebabEnter(p) ==
  /\ TableFree
  /\ menu.pointer = "away"
  /\ \E i \in DOMAIN table.rows : table.rows[i].pid = asId(p.id)
  /\ TableStep(noCalls(table), [kebabEntered(menu, p) EXCEPT !.pointer = "kebab"],
               "kebabEnter")

\* the pointer leaves the kebab button
KebabLeave ==
  /\ menu.pointer = "kebab"
  /\ menu.made < MaxTimers
  /\ TableStep(noCalls(table), [scheduleClose(menu) EXCEPT !.pointer = "away"],
               "kebabLeave")

\* the pointer comes onto the open menu
MenuEnter ==
  /\ TableFree
  /\ menu.pointer = "away"
  /\ menu.menuOpen
  /\ TableStep(noCalls(table), [cancelClose(menu) EXCEPT !.pointer = "menu"],
               "menuEnter")

\* the pointer leaves the menu
MenuLeave ==
  /\ menu.pointer = "menu"
  /\ menu.made < MaxTimers
  /\ TableStep(noCalls(table), [scheduleClose(menu) EXCEPT !.pointer = "away"],
               "menuLeave")

\* a close timer runs out
TimerFires(id) ==
  /\ id \in menu.timers
  /\ TableStep(noCalls(table), closeMenu([menu EXCEPT !.timers = @ \ {id}]),
               "closeTimer")

\* a click somewhere in the document
DocumentClick ==
  /\ TableFree
  /\ TableStep(noCalls(table), documentClicked(menu), "click")

\* the scroll and resize listeners of the window
ScrollOrResize == TableStep(noCalls(table), closeMenu(menu), "scroll")

\* a click on Delete in the open menu: closeMenu(), openDeleteDlg(p)
OpenDelete ==
  /\ TableFree
  /\ menu.menuOpen /\ menu.pointer = "menu"
  /\ menu.menuProfile # noProfile
  /\ TableStep([table EXCEPT !.pendingDelete = menu.menuProfile, !.calls = <<>>],
               closeMenu(menu), "miDelete")

\* the Delete-all button, shown while two or more profiles are selected
OpenBulkDelete ==
  /\ TableFree
  /\ ~table.delAllHidden
  /\ TableStep([table EXCEPT !.pendingDelete = BULK, !.calls = <<>>], menu,
               "btnDeleteAll")

\* Cancel, the close button, Escape or a click beside the dialog
CloseDelete ==
  /\ table.pendingDelete # noDelete
  /\ TableStep([table EXCEPT !.pendingDelete = noDelete, !.calls = <<>>], menu,
               "dlgCancel")

\* OK in the delete dialog; the backend has deleteProfiles or it has not
ConfirmDelete(hasDeleteProfiles) ==
  /\ table.pendingDelete # noDelete
  /\ TableStep(confirmed(table, hasDeleteProfiles), menu, "dlgOk")

\* selecting, searching and deleting in the profile table
TableNext ==
  \/ \E list \in ProfileLists : ProfilesChanged(list)
  \/ \E i \in 1..Len(allProfiles) : RowToggle(i)
  \/ AllToggle
  \/ \E q \in SearchTexts : Search(q)
  \/ \E i \in DOMAIN table.profiles : KebabEnter(table.profiles[i])
  \/ MenuEnter
  \/ OpenDelete
  \/ OpenBulkDelete
  \/ CloseDelete
  \/ \E b \in BOOLEAN : ConfirmDelete(b)

TableSpec == FormInit /\ [][TableNext]_vars

\* the pointer over the kebab buttons and the context menu
MenuNext ==
  \/ \E list \in ProfileLists : ProfilesChanged(list)
  \/ \E i \in DOMAIN table.profiles : KebabEnter(table.profiles[i])
  \/ KebabLeave
  \/ MenuEnter
  \/ MenuLeave
  \/ \E id \in 1..MaxTimers : TimerFires(id)
  \/ DocumentClick
  \/ ScrollOrResize
  \/ OpenDelete
  \/ CloseDelete

MenuSpec == FormInit /\ [][MenuNext]_vars

(***************************************************************************)
(* Vocabulary of the properties                                             *)
(***************************************************************************)
HTTP == <<"h","t","t","p">>

HTTPS == <<"h","t","t","p","s">>

SOCKS4 == <<"s","o","c","k","s","4">>

SOCKS5 == <<"s","o","c","k","s","5">>

SOCKS5H == <<"s","o","c","k","s","5","h">>

HttpSpellings == CaseMixes(HTTP) \cup CaseMixes(HTTPS)

Socks4Spellings == CaseMixes(SOCKS4)

Socks5Spellings == CaseMixes(SOCKS5) \cup CaseMixes(SOCKS5H)

\* the type the specification assigns to a scheme token
ExpectedType(w) ==
  IF w \in Socks4Spellings THEN "socks4"
  ELSE IF w \in Socks5Spellings THEN "socks5"
  ELSE "http"

\* a non-empty string over [A-Za-z0-9.-]
HostSyntax(h) == h # <<>> /\ \A i \in 1..Len(h) : h[i] \in HostCharSet

DotOnly(h) == h # <<>> /\ \A i \in 1..Len(h) : h[i] = "."

AllDigits(p) == p # <<>> /\ \A i \in 1..Len(p) : p[i] \in DigitSet

\* the decimal form of an integer in [0, 65535]
DecimalPort(p) ==
  /\ AllDigits(p)
  /\ Len(p) = 1 \/ p[1] # "0"
  /\ DigitsValue(p) <= 65535

\* a non-empty token without ':', '@' or white space
CredToken(u) ==
  u # <<>> /\ \A i \in 1..Len(u) : u[i] \notin ({":", "@"} \cup WhiteSpace)

CredPairOK(c) == c # NoCreds /\ CredToken(c[1]) /\ CredToken(c[2])

Descriptor(type, host, port, user, pass) ==
  [type |-> type, host |-> host, port |-> port, user |-> user, pass |-> pass]

\* the input is a bare body: nothing before, no scheme, nothing after
Bare(in) ==
  /\ in.kind = "endpoint"
  /\ in.pre = <<>> /\ in.scheme = <<>> /\ in.sep = <<>> /\ in.post = <<>>

\* the input is a scheme token, a separator and a body, and nothing else
Schemed(in) ==
  /\ in.kind = "endpoint"
  /\ in.pre = <<>> /\ in.post = <<>>
  /\ in.scheme \in SchemeSpellings

Parsed == pc = "done"

(***************************************************************************)
(* C1                                                                       *)
(***************************************************************************)
HostPortCase ==
  /\ Parsed
  /\ Bare(input)
  /\ input.prefix = NoCreds /\ input.suffix = NoCreds
  /\ HostSyntax(input.host) /\ ~DotOnly(input.host)
  /\ DecimalPort(input.port)

\* C1: for every host over [A-Za-z0-9.-]+ that is not dot-only and every port
\* that is the decimal form of an integer in [0,65535], the parse of
\* "host:port" is the descriptor with type http, that host, that port and
\* empty user and pass.
C1_HostPort ==
  HostPortCase =>
    result = Descriptor("http", input.host, input.port, <<>>, <<>>)

C1_Witness ==
  /\ HostPortCase
  /\ input.host = <<"a", "-">>
  /\ input.port = <<"6","5","5","3","5">>
  /\ result # null

(***************************************************************************)
(* C2                                                                       *)
(***************************************************************************)
HostPortUserPassCase ==
  /\ Parsed
  /\ Bare(input)
  /\ input.prefix = NoCreds /\ CredPairOK(input.suffix)
  /\ HostSyntax(input.host) /\ ~DotOnly(input.host)
  /\ DecimalPort(input.port)

\* C2: for such a host and port and non-empty user and pass tokens without
\* ':', '@' or white space, the parse of "host:port:user:pass" has type http
\* and exactly that host, port, user and pass.
C2_HostPortUserPass ==
  HostPortUserPassCase =>
    result = Descriptor("http", input.host, input.port,
                        input.suffix[1], input.suffix[2])

C2_Witness ==
  /\ HostPortUserPassCase
  /\ input.suffix = <<ALICE, <<"P","/","x",".","-">>>>
  /\ result # null
  /\ result.pass = <<"P","/","x",".","-">>

(***************************************************************************)
(* C3                                                                       *)
(***************************************************************************)
UserPassAtHostPortCase ==
  /\ Parsed
  /\ Bare(input)
  /\ CredPairOK(input.prefix) /\ input.suffix = NoCreds
  /\ HostSyntax(input.host)
  /\ DecimalPort(input.port)

\* the same parts written as host:port:user:pass
AsSuffixForm(in) == [in EXCEPT !.prefix = NoCreds, !.suffix = in.prefix]

\* C3: for every host over [A-Za-z0-9.-]+, port in range and user and pass
\* tokens, the parse of "user:pass@host:port" equals the parse of
\* "host:port:user:pass" (the same five fields, or no match for both).
C3_PrefixEqualsSuffix ==
  UserPassAtHostPortCase =>
    result = smartParseProxy(Compose(AsSuffixForm(input)))

C3_Witness ==
  /\ UserPassAtHostPortCase
  /\ result # null
  /\ result.user = input.prefix[1] /\ result.pass = input.prefix[2]
  /\ input.prefix[1] # input.prefix[2]

(***************************************************************************)
(* C4                                                                       *)
(***************************************************************************)
SchemeUrlCase ==
  /\ Parsed
  /\ Schemed(input)
  /\ input.sep = SLASHES
  /\ input.prefix = NoCreds /\ input.suffix = NoCreds
  /\ HostSyntax(input.host) /\ ~DotOnly(input.host)
  /\ DecimalPort(input.port)

\* C4: for every valid host:port and each scheme token of http, https,
\* socks4, socks5, socks5h in any mix of upper and lower case, the parse of
\* "scheme://host:port" has type http, http, socks4, socks5, socks5
\* respectively, with the host and port unchanged.
C4_SchemeResolution ==
  SchemeUrlCase =>
    result = Descriptor(ExpectedType(input.scheme), input.host, input.port,
                        <<>>, <<>>)

C4_Witness ==
  /\ SchemeUrlCase
  /\ input.scheme = <<"S","o","C","k","S","5","H">>
  /\ result # null
  /\ result.type = "socks5"

(***************************************************************************)
(* C5                                                                       *)
(***************************************************************************)
SchemeBlankCase ==
  /\ Parsed
  /\ Schemed(input)
  /\ input.sep # <<>> /\ \A i \in 1..Len(input.sep) : input.sep[i] \in WhiteSpace
  /\ input.prefix = NoCreds \/ input.suffix = NoCreds
  /\ input.prefix = NoCreds \/ CredPairOK(input.prefix)
  /\ input.suffix = NoCreds \/ CredPairOK(input.suffix)
  /\ HostSyntax(input.host) /\ ~DotOnly(input.host)
  /\ DecimalPort(input.port)

\* the same scheme and body written as scheme://body
AsUrlForm(in) == [in EXCEPT !.sep = SLASHES]

\* "socks5 203.0.113.5:1080:alice:secret"
C5_Example ==
  SOCKS5 \o <<" ">> \o <<"2","0","3",".","0",".","1","1","3",".","5">>
    \o <<":">> \o <<"1","0","8","0">> \o <<":">> \o ALICE \o <<":">> \o SECRET

\* C5: for each scheme token and each body host:port, host:port:user:pass or
\* user:pass@host:port, the parse of the scheme and the body separated by
\* white space is a descriptor equal to the parse of "scheme://body"; the
\* text "socks5 203.0.113.5:1080:alice:secret" parses to socks5,
\* 203.0.113.5, 1080, alice, secret.
C5_BlankEqualsUrl ==
  /\ SchemeBlankCase =>
       /\ result # null
       /\ result = smartParseProxy(Compose(AsUrlForm(input)))
  /\ (Parsed /\ text = C5_Example) =>
       result = Descriptor("socks5",
                           <<"2","0","3",".","0",".","1","1","3",".","5">>,
                           <<"1","0","8","0">>, ALICE, SECRET)

C5_Witness ==
  /\ SchemeBlankCase
  /\ text = C5_Example
  /\ result # null
  /\ result.type = "socks5" /\ result.user = ALICE

C5_WitnessLongBlank ==
  /\ SchemeBlankCase
  /\ Len(input.sep) = 3
  /\ input.prefix # NoCreds
  /\ result # null
  /\ result.type = "socks4"

(***************************************************************************)
(* C6                                                                       *)
(***************************************************************************)
OutOfRangePortCase ==
  /\ Parsed
  /\ Bare(input)
  /\ input.prefix = NoCreds /\ input.suffix = NoCreds
  /\ HostSyntax(input.host)
  /\ AllDigits(input.port)
  /\ DigitsValue(input.port) > 65535

\* C6: for every host over [A-Za-z0-9.-]+ and every port written as decimal
\* digits, of any length, whose value is greater than 65535, the parse of
\* "host:port" is null.
C6_OutOfRangePortRejected == OutOfRangePortCase => result = null

(***************************************************************************)
(* C7                                                                       *)
(***************************************************************************)
\* 1 to 5 decimal digits
PortSyntax(p) == AllDigits(p) /\ Len(p) <= 5

Part(s, a, b) == SubSeq(s, a, b)

\* host:port
IsHostPortText(s) ==
  \E i \in 1..Len(s) :
     /\ s[i] = ":"
     /\ HostSyntax(Part(s, 1, i - 1))
     /\ PortSyntax(Part(s, i + 1, Len(s)))

\* host:port:user:pass
IsHostPortCredsText(s) ==
  \E i \in 1..Len(s) :
     /\ s[i] = ":"
     /\ HostSyntax(Part(s, 1, i - 1))
     /\ \E j \in (i + 1)..Len(s) :
          /\ s[j] = ":"
          /\ PortSyntax(Part(s, i + 1, j - 1))
          /\ \E k \in (j + 1)..Len(s) :
               /\ s[k] = ":"
               /\ CredToken(Part(s, j + 1, k - 1))
               /\ CredToken(Part(s, k + 1, Len(s)))

\* user:pass@host:port
IsCredsHostPortText(s) ==
  \E i \in 1..Len(s) :
     /\ s[i] = ":"
     /\ CredToken(Part(s, 1, i - 1))
     /\ \E a \in (i + 1)..Len(s) :
          /\ s[a] = "@"
          /\ CredToken(Part(s, i + 1, a - 1))
          /\ IsHostPortText(Part(s, a + 1, Len(s)))

IsBodyText(s) ==
  IsHostPortText(s) \/ IsHostPortCredsText(s) \/ IsCredsHostPortText(s)

\* one of the seven supported notations, and nothing else
IsNotation(s) ==
  \/ IsBodyText(s)
  \/ \E n \in 1..Len(s) :
       /\ Part(s, 1, n) \in SchemeSpellings
       /\ \/ /\ Part(s, n + 1, n + 3) = SLASHES
             /\ IsBodyText(Part(s, n + 4, Len(s)))
          \/ \E k \in 1..(Len(s) - n) :
               /\ \A j \in (n + 1)..(n + k) : s[j] \in WhiteSpace
               /\ IsBodyText(Part(s, n + k + 1, Len(s)))

\* C7: a descriptor is returned only when the whole trimmed input is one of
\* the seven supported notations; an input with characters left over before
\* or after the notation yields null.
C7_WholeInputOnly ==
  (Parsed /\ result # null) => IsNotation(trim(Or(text, <<>>)))

(***************************************************************************)
(* C8                                                                       *)
(***************************************************************************)
\* C8: every non-null result, for any input, has a non-empty host of letters,
\* digits, dots and hyphens that is not dot-only, a port of 1 to 5 decimal
\* digits with a value in [0,65535], and all five fields.
C8_ResultWellFormed ==
  (Parsed /\ result # null) =>
     /\ DOMAIN result = {"type", "host", "port", "user", "pass"}
     /\ HostSyntax(result.host) /\ ~DotOnly(result.host)
     /\ PortSyntax(result.port)
     /\ DigitsValue(result.port) >= 0 /\ DigitsValue(result.port) <= 65535

C8_Witness ==
  /\ Parsed
  /\ input.kind = "endpoint" /\ input.pre # <<>> /\ input.post # <<>>
  /\ result # null
  /\ result.port = <<"8","0">>

C8_WitnessRejected ==
  /\ Parsed
  /\ input.kind = "endpoint"
  /\ input.port = <<"6","5","5","3","6">>
  /\ HostSyntax(input.host) /\ ~DotOnly(input.host)
  /\ result = null

(***************************************************************************)
(* C9                                                                       *)
(***************************************************************************)
\* the text the pattern captured as host, or <<>> when nothing matched
HostOf(m) == IF m = Fail THEN <<>> ELSE m[1].groups[4]

MatchedHost(t) == HostOf(match(trim(Or(t, <<>>))))

\* ".:80", "...:8080", "u:p@..:80", "socks5://...:1080"
C9_Examples ==
  { <<".", ":", "8", "0">>,
    <<".", ".", ".", ":", "8", "0", "8", "0">>,
    <<"u", ":", "p", "@", ".", ".", ":", "8", "0">>,
    SOCKS5 \o SLASHES \o <<".", ".", ".", ":", "1", "0", "8", "0">> }

\* C9: whenever the text matched as host consists only of dots, the result
\* is null, also when a later part of the input would be a valid host:port.
C9_DotOnlyHostRejected ==
  /\ (Parsed /\ DotOnly(MatchedHost(text))) => result = null
  /\ (Parsed /\ text \in C9_Examples) => result = null

C9_Witness ==
  /\ Parsed
  /\ input.kind = "endpoint"
  /\ input.host = <<".", ".">>
  /\ input.post = <<" ", "a", ":", "1">>
  /\ MatchedHost(text) = <<".", ".">>
  /\ result = null

(***************************************************************************)
(* C10                                                                      *)
(***************************************************************************)
\* C10: in every descriptor returned, user is non-empty exactly when pass is
\* non-empty.
C10_CredentialsPaired ==
  (Parsed /\ result # null) => (result.user # <<>> <=> result.pass # <<>>)

C10_Witness ==
  /\ Parsed
  /\ input.kind = "endpoint"
  /\ input.prefix = NoCreds /\ input.suffix # NoCreds
  /\ result # null
  /\ result.user # <<>> /\ result.pass # <<>>

(***************************************************************************)
(* C11                                                                      *)
(***************************************************************************)
StartsWith(t, p, w) ==
  /\ p + Len(w) - 1 <= Len(t)
  /\ SubSeq(t, p, p + Len(w) - 1) = w

\* the endpoint of descriptor r is written in t from position p on
EndpointAt(t, p, r) ==
  \/ StartsWith(t, p, r.host \o <<":">> \o r.port)
  \/ StartsWith(t, p, r.user \o <<":">> \o r.pass \o <<"@">>
                        \o r.host \o <<":">> \o r.port)

\* a scheme word followed by "://" or white space stands right in front of
\* the endpoint of r
SchemeTokenInFront(t, r) ==
  \E i \in 1..Len(t), n \in 4..7 :
     /\ i + n - 1 <= Len(t)
     /\ SubSeq(t, i, i + n - 1) \in SchemeSpellings
     /\ \/ /\ StartsWith(t, i + n, SLASHES)
           /\ EndpointAt(t, i + n + 3, r)
        \/ \E k \in 1..(Len(t) - i - n + 1) :
             /\ \A j \in (i + n)..(i + n + k - 1) : t[j] \in WhiteSpace
             /\ EndpointAt(t, i + n + k, r)

\* C11: every descriptor returned has type http, socks4 or socks5, and the
\* type is http whenever no scheme token (a scheme word followed by "://" or
\* white space) stands in front of the matched endpoint.
C11_TypeDefault ==
  (Parsed /\ result # null) =>
     /\ result.type \in {"http", "socks4", "socks5"}
     /\ ~SchemeTokenInFront(text, result) => result.type = "http"

C11_Witness ==
  /\ Parsed
  /\ input.kind = "endpoint" /\ input.scheme = <<>> /\ input.pre # <<>>
  /\ result # null
  /\ ~SchemeTokenInFront(text, result)
  /\ result.type = "http"

C11_WitnessScheme ==
  /\ Parsed
  /\ result # null
  /\ SchemeTokenInFront(text, result)
  /\ result.type = "socks4"

(***************************************************************************)
(* C12                                                                      *)
(***************************************************************************)
BothPairsCase ==
  /\ Parsed
  /\ Bare(input)
  /\ CredPairOK(input.prefix) /\ CredPairOK(input.suffix)
  /\ HostSyntax(input.host) /\ ~DotOnly(input.host)
  /\ DecimalPort(input.port)

\* C12: on "u1:p1@host:port:u2:p2" the descriptor takes user and pass from
\* the prefix pair (u1, p1), never from the suffix pair.
C12_PrefixPairWins ==
  BothPairsCase =>
    result = Descriptor("http", input.host, input.port,
                        input.prefix[1], input.prefix[2])

C12_Witness ==
  /\ BothPairsCase
  /\ input.prefix[1] # input.suffix[1] /\ input.prefix[2] # input.suffix[2]
  /\ result # null
  /\ result.user = input.prefix[1] /\ result.pass = input.prefix[2]

(***************************************************************************)
(* C13                                                                      *)
(***************************************************************************)
\* text.match(regex) as smartParseProxy computes it for the argument t
MatchOf(t) == match(trim(Or(t, <<>>)))

Captured(m, k) == m # Fail /\ m[1].groups[k] # undefined

BothPairsCaptured(m) == Captured(m, 2) /\ Captured(m, 6)

PairsTogether(m) ==
  /\ Captured(m, 2) <=> Captured(m, 3)
  /\ Captured(m, 6) <=> Captured(m, 7)

PrefixPairUsed(m, r) ==
  (BothPairsCaptured(m) /\ r # null) =>
     r.user = m[1].groups[2] /\ r.pass = m[1].groups[3]

\* C13 as stated: no match captures both the prefix pair (user:pass@ before
\* the host) and the suffix pair (:user:pass after the port).
C13_MutuallyExclusive == Parsed => ~BothPairsCaptured(MatchOf(text))

\* C13 amended: one match can capture both pairs; the two groups of a pair
\* are captured together, and when both pairs are captured the descriptor
\* has the user and pass of the prefix pair.
C13_PairsTogetherPrefixUsed ==
  Parsed => PairsTogether(MatchOf(text)) /\ PrefixPairUsed(MatchOf(text), result)

SuffixPairDiffers(m) ==
  /\ BothPairsCaptured(m)
  /\ m[1].groups[2] # m[1].groups[6]
  /\ m[1].groups[3] # m[1].groups[7]

C13_Witness ==
  /\ Parsed
  /\ SuffixPairDiffers(MatchOf(text))
  /\ result # null
  /\ result.pass = input.prefix[2]

(***************************************************************************)
(* C14                                                                      *)
(***************************************************************************)
\* "", a text of white space only, null or undefined
BlankArgument(t) ==
  \/ t \in {undefined, nullArg}
  \/ \A i \in 1..Len(t) : t[i] \in WhiteSpace

\* C14: for the empty string, every white-space-only text, null and
\* undefined the result is null.
C14_BlankIsNull == (Parsed /\ BlankArgument(text)) => result = null

C14_Witness ==
  /\ Parsed
  /\ text = <<" ", "\t", "\n">>
  /\ result = null

C14_WitnessUndefined == Parsed /\ text = undefined /\ result = null

(***************************************************************************)
(* C15                                                                      *)
(***************************************************************************)
IsDescriptor(r) == DOMAIN r = {"type", "host", "port", "user", "pass"}

PortOf(m) == IF m = Fail THEN <<>> ELSE m[1].groups[5]

\* the three ways of failing
NoMatchCase(m) == m = Fail

PortOutOfRangeCase(m) == m # Fail /\ DigitsValue(PortOf(m)) > 65535

DotOnlyHostCase(m) == m # Fail /\ DotOnly(HostOf(m))

C15_WitnessPort ==
  /\ Parsed
  /\ PortOutOfRangeCase(MatchOf(text))
  /\ ~DotOnlyHostCase(MatchOf(text))
  /\ result = null

(***************************************************************************)
(* C16                                                                      *)
(***************************************************************************)
\* a ':' immediately followed by a decimal digit
HasColonDigit(t) ==
  \E i \in 1..(Len(t) - 1) : t[i] = ":" /\ t[i + 1] \in DigitSet

HELLO_WORLD == <<"h","e","l","l","o"," ","w","o","r","l","d">>

\* C16: for every input without a ':' immediately followed by a decimal
\* digit, such as "hello world", the result is null.
C16_NoColonDigitIsNull ==
  (Parsed /\ IsString(text) /\ ~HasColonDigit(text)) => result = null

C16_Witness ==
  /\ Parsed
  /\ text = HELLO_WORLD
  /\ result = null

C16_WitnessHostDigits ==
  /\ Parsed
  /\ text = <<"a", "1", ":", "a">>
  /\ result = null

(***************************************************************************)
(* C18                                                                      *)
(***************************************************************************)
\* the text the type field shows for a descriptor type
TypeField(type) ==
  IF type = "socks4" THEN SOCKS4 ELSE IF type = "socks5" THEN SOCKS5 ELSE HTTP

\* applyProxyToForm(result) has just run, from the paste listener of the host
\* field or from the callback of backend.parseProxyString
Applied ==
  /\ pc \in {"hostPaste", "parseProxyString"}
  /\ result # null

CredentialsWritten(f, d) ==
  /\ ~f.userDisabled /\ ~f.passDisabled
  /\ f.user = d.user /\ f.pass = d.pass

CredentialsOff(f) ==
  /\ f.userDisabled /\ f.passDisabled
  /\ f.user = <<>> /\ f.pass = <<>>

\* C18: after applyProxyToForm(d) with d.type http, socks4 or socks5, from
\* any form state, the proxy is enabled, type, host and port are d's, the
\* user and pass fields are d's for http and socks5, and they are disabled
\* and empty for socks4.
C18_DescriptorApplied ==
  (Applied /\ result.type \in {"http", "socks4", "socks5"}) =>
     /\ form.enabled
     /\ form.type = TypeField(result.type)
     /\ form.host = result.host
     /\ form.port = result.port
     /\ result.type \in {"http", "socks5"} => CredentialsWritten(form, result)
     /\ result.type = "socks4" => CredentialsOff(form)

C18_Witness ==
  /\ Applied
  /\ pc = "parseProxyString"
  /\ result.type = "socks5"
  /\ result.user # <<>>
  /\ CredentialsWritten(form, result)
  /\ form.host = result.host

C18_WitnessSocks4 ==
  /\ Applied
  /\ result.type = "socks4"
  /\ result.user # <<>>
  /\ CredentialsOff(form)

(***************************************************************************)
(* C19                                                                      *)
(***************************************************************************)
\* val with the range from start to end replaced by t
Spliced(val, start, end, t) ==
  SubSeq(val, 1, start) \o t \o SubSeq(val, end + 1, Len(val))

\* the step is a run of the paste listener of the host field on a text that
\* is not empty
PastedNow == pc' = "hostPaste" /\ text' # <<>>

LiteralInsertion ==
  /\ form'.host = Spliced(form.host, form.selectionStart, form.selectionEnd, text')
  /\ form'.selectionStart = form.selectionStart + Len(text')
  /\ form'.selectionEnd = form.selectionStart + Len(text')
  /\ form'.enabled = form.enabled
  /\ form'.type = form.type
  /\ form'.port = form.port
  /\ form'.user = form.user
  /\ form'.pass = form.pass

NoRawText ==
  /\ form'.host = result'.host
  /\ form'.host # text'
  /\ form'.host # Spliced(form.host, form.selectionStart, form.selectionEnd, text')

\* C19: a paste of a non-empty text that smartParseProxy rejects replaces the
\* selected range of the host field by the text as given and puts the caret
\* after it, and leaves the enabled flag, type, port, user and pass alone; a
\* paste that parses never puts the raw text into the host field.
C19_LiteralPaste ==
  [][PastedNow => IF result' = null THEN LiteralInsertion ELSE NoRawText]_vars

C19_Witness ==
  /\ pc = "hostPaste"
  /\ text = <<" ", "x">>
  /\ result = null
  /\ form.host = <<"h", " ", "x">>
  /\ form.selectionStart = 3 /\ form.selectionEnd = 3
  /\ form.enabled

C19_WitnessParsed ==
  /\ pc = "hostPaste"
  /\ text # <<>>
  /\ result # null
  /\ form.host = <<"h">>

(***************************************************************************)
(* C20                                                                      *)
(***************************************************************************)
\* the name of the profile with the id pid in the profile table
NameOf(pid) ==
  LET i == CHOOSE k \in 1..Len(profiles) : asId(profiles[k].id) = pid
  IN profiles[i].name

\* the name of what the form is bound to: the profile being edited, or the
\* default name of the profile being created
BoundName ==
  IF state.isCreateMode THEN getNextProfileName ELSE NameOf(state.editProfileId)

WriteMatchesTarget ==
  /\ write.call = "saveProfileDetail" => write.data.name = trim(NameOf(write.pid))
  /\ write.call = "createProfileFull" => write.data.name = getNextProfileName

\* C20: the open edit form shows the profile it is bound to, and a save
\* writes under an id the details of that profile: an answer of
\* getProfileDetail for another profile never fills the form.
C20_FormShowsBoundProfile ==
  /\ view = "edit" => form.name = BoundName
  /\ WriteMatchesTarget

(***************************************************************************)
(* C21                                                                      *)
(***************************************************************************)
\* the step is a run of the proxyChecked listener while a check with an id
\* is recorded in state.proxyCheckReqId
SignalAfterCheck == pc' = "proxyChecked" /\ check.proxyCheckReqId # nullArg

StatusAndButtonKept ==
  /\ form'.status = form.status
  /\ form'.statusClass = form.statusClass
  /\ check'.disabled = check.disabled

ResultShown ==
  /\ ~check'.disabled
  /\ form'.status \in {"live", "dead", ERROR_PARSING}

ButtonEnabledNow == check.disabled /\ ~check'.disabled

\* C21: once a check with the id R is recorded, a proxyChecked signal with
\* no id or with another id changes neither the status text and class nor
\* the disabled flag of the Check button; the signal with R enables the
\* button and shows a result, and nothing else enables the button.
C21_OnlyCurrentIdAccepted ==
  [][ /\ SignalAfterCheck =>
           IF check'.reqId = check.proxyCheckReqId
             THEN ResultShown ELSE StatusAndButtonKept
      /\ ButtonEnabledNow =>
           pc' = "proxyChecked" /\ check'.reqId = check.proxyCheckReqId ]_vars

C21_Witness ==
  /\ pc = "proxyChecked"
  /\ check.proxyCheckReqId # nullArg
  /\ check.reqId \notin {<<>>, check.proxyCheckReqId}
  /\ check.disabled
  /\ form.status = CHECKING

C21_WitnessAccepted ==
  /\ pc = "proxyChecked"
  /\ check.reqId = check.proxyCheckReqId
  /\ ~check.disabled
  /\ form.status = "live"

(***************************************************************************)
(* C22                                                                      *)
(***************************************************************************)
\* the step is the proxyChecked listener on the report of the oldest open
\* check, and the proxy fields are no longer what that check was sent with
StaleReport ==
  /\ pc' = "proxyChecked"
  /\ check.sent # <<>>
  /\ check'.sent = Tail(check.sent)
  /\ check'.reqId = Head(check.sent).id
  /\ Head(check.sent).proxy # readEditForm(form).proxy

\* C22: the report of a check that was started before the proxy fields were
\* edited is never shown as the status of the edited fields: the status set
\* to "Not checked yet" by the edit stays until a new check is started.
C22_NoStaleResult ==
  [][StaleReport => form'.status = form.status /\ form'.statusClass = form.statusClass]_vars

(***************************************************************************)
(* C23                                                                      *)
(***************************************************************************)
\* the ids of the profiles in state.profiles
idsOfProfiles == {asId(table.profiles[i].id) : i \in DOMAIN table.profiles}

\* C23: whatever profilesChanged signals, row and select-all toggles,
\* searches and bulk deletes have happened, state.selected holds only ids of
\* profiles that are in state.profiles; the id of a profile that an update
\* dropped is not selected once the update is handled.
C23_SelectedAreListed ==
  \A i \in DOMAIN table.selected : table.selected[i] \in idsOfProfiles

\* an update that dropped profiles has been handled and part of the
\* selection is left, of a profile the search hides
C23_Witness ==
  /\ pc = "profilesChanged"
  /\ Len(table.profiles) < Len(allProfiles)
  /\ table.selected # <<>>
  /\ \E i \in DOMAIN table.selected :
       \A r \in DOMAIN table.rows : table.rows[r].pid # table.selected[i]

(***************************************************************************)
(* C24                                                                      *)
(***************************************************************************)
RECURSIVE idsAsked(_)
\* the ids of a sequence of delete calls, one after the other
idsAsked(calls) ==
  IF calls = <<>> THEN <<>> ELSE Head(calls).ids \o idsAsked(Tail(calls))

\* no id is twice in seq
eachOnce(seq) == \A i, j \in DOMAIN seq : seq[i] = seq[j] => i = j

ConfirmsBulk == pc' = "dlgOk" /\ table.pendingDelete = BULK

ConfirmsSingle == pc' = "dlgOk" /\ table.pendingDelete \notin {BULK, noDelete}

C24_WitnessSingle ==
  /\ pc = "dlgOk"
  /\ table.selected # <<>>
  /\ table.calls # <<>>
  /\ idsAsked(table.calls)[1] \notin Elements(table.selected)

(***************************************************************************)
(* C25                                                                      *)
(***************************************************************************)
MenuCloses == menu.menuOpen /\ ~menu'.menuOpen

\* C25: at most one close timer is pending, and none while the pointer is
\* on a kebab button or on the menu; coming onto a kebab button opens the
\* menu with no timer pending, so that no timer scheduled before closes it;
\* the menu closes only by a timer running out while the pointer is off
\* the buttons and the menu, or by a click, a scroll or a resize.
C25_MenuKeptOpen ==
  [][ /\ Cardinality(menu'.timers) <= 1
      /\ menu'.pointer # "away" => menu'.timers = {}
      /\ pc' = "kebabEnter" => menu'.menuOpen /\ menu'.timers = {}
      /\ pc' = "menuEnter" => menu'.menuOpen /\ menu'.timers = {}
      /\ MenuCloses => \/ pc' = "closeTimer" /\ menu.pointer = "away"
                       \/ pc' \in {"click", "miDelete", "scroll"} ]_vars

\* the pointer is on a kebab button and its menu is open, after a timer was
\* scheduled by an earlier leave
C25_Witness ==
  /\ pc = "kebabEnter"
  /\ menu.pointer = "kebab"
  /\ menu.menuOpen
  /\ menu.made >= 1
  /\ menu.timers = {}

====
